---- MODULE Spec2Model ----
(***************************************************************************)
(* A model of the SQL schema parser of src/main.py: the two HTTP entry     *)
(* points /parse-sql and /parse-text and the three core functions they     *)
(* run, extract_tables_and_ddl, parse_constraints and to_serializable.     *)
(*                                                                         *)
(* Text.  A Python str is a sequence of code points (34 is the double      *)
(* quote, 32 the space, 44 the comma, 40 and 41 the parentheses).  The SQL *)
(* text is the sequence of its ';'-terminated statements; a statement is   *)
(* the sequence of the tokens that the regular expressions of the source   *)
(* tell apart:                                                             *)
(*   head "CREATE"  CREATE TABLE "schema"."table" ... ;                    *)
(*   head "ALTER"   ALTER TABLE "schema"."table" ... ;                     *)
(*   head "OTHER"   any statement neither pattern matches, for instance    *)
(*                  ALTER TABLE ONLY public.t ... ;                        *)
(* and the body of a statement is a sequence of clause tokens              *)
(*   kind "PK"   PRIMARY KEY ( cols )                                      *)
(*   kind "FKH"  FOREIGN KEY ( cols )                                      *)
(*   kind "REF"  REFERENCES "schema"."table" ( cols )                      *)
(* whose column lists are kept as raw text, so that split, strip and join  *)
(* are modelled character by character.  The verbatim text of a statement  *)
(* is the statement value itself.                                          *)
(***************************************************************************)
EXTENDS Integers, Sequences, FiniteSets, TLC

\* Longest SQL text, in statements, that a request carries.
MaxStmts == 3

-----------------------------------------------------------------------------
(* str primitives *)

\* str.strip() without argument strips ASCII whitespace.
Whitespace == {9, 10, 11, 12, 13, 32}

\* strip('"')
Quote == {34}

RECURSIVE LStrip(_, _)
LStrip(s, chars) ==
    IF s # <<>> /\ Head(s) \in chars THEN LStrip(Tail(s), chars) ELSE s

RECURSIVE RStrip(_, _)
RStrip(s, chars) ==
    IF s # <<>> /\ s[Len(s)] \in chars
    THEN RStrip(SubSeq(s, 1, Len(s) - 1), chars)
    ELSE s

\* s.strip(chars)
Strip(s, chars) == RStrip(LStrip(s, chars), chars)

\* s.split(','): at least one part, empty parts kept.
RECURSIVE Split(_, _)
Split(s, sep) ==
    IF \A k \in 1..Len(s) : s[k] # sep
    THEN <<s>>
    ELSE LET k == CHOOSE j \in 1..Len(s) :
                      s[j] = sep /\ \A h \in 1..(j - 1) : s[h] # sep
         IN  <<SubSeq(s, 1, k - 1)>> \o Split(SubSeq(s, k + 1, Len(s)), sep)

\* sep.join(parts)
RECURSIVE Join(_, _)
Join(parts, sep) ==
    IF parts = <<>> THEN <<>>
    ELSE IF Len(parts) = 1 THEN parts[1]
    ELSE parts[1] \o sep \o Join(Tail(parts), sep)

\* [c.strip().strip('"') for c in cols.split(',')]
StripCols(cols) ==
    LET parts == Split(cols, 44)
    IN  [k \in 1..Len(parts) |-> Strip(Strip(parts[k], Whitespace), Quote)]

\* x < y on str: lexicographic by code point, a proper prefix first.
RECURSIVE StrLess(_, _)
StrLess(x, y) ==
    IF y = <<>> THEN FALSE
    ELSE IF x = <<>> THEN TRUE
    ELSE IF Head(x) # Head(y) THEN Head(x) < Head(y)
    ELSE StrLess(Tail(x), Tail(y))

\* sorted(S) of a collection of distinct str
RECURSIVE Sorted(_)
Sorted(S) ==
    IF S = {} THEN <<>>
    ELSE LET least == CHOOSE x \in S : \A y \in S \ {x} : StrLess(x, y)
         IN  <<least>> \o Sorted(S \ {least})

\* s.endswith(suffix)
EndsWith(s, suffix) ==
    /\ Len(s) >= Len(suffix)
    /\ SubSeq(s, Len(s) - Len(suffix) + 1, Len(s)) = suffix

-----------------------------------------------------------------------------
(* The registry: a dict, kept as the sequence of its items in insertion    *)
(* order.  Assigning to a key the dict holds replaces the value in place.  *)

Keys(d) == {d[k].key : k \in 1..Len(d)}

Has(d, key) == key \in Keys(d)

IndexOf(d, key) == CHOOSE k \in 1..Len(d) : d[k].key = key

Get(d, key) == d[IndexOf(d, key)].value

\* d[key] = value
Put(d, key, value) ==
    IF Has(d, key) THEN [d EXCEPT ![IndexOf(d, key)].value = value]
    ELSE Append(d, [key |-> key, value |-> value])

Range(s) == {s[k] : k \in 1..Len(s)}

-----------------------------------------------------------------------------
(* extract_tables_and_ddl *)

\* create_pattern.finditer(sql_text): the CREATE TABLE statements, in text order.
CreateMatches(sql_text) ==
    LET IsCreate(stmt) == stmt.head = "CREATE"
    IN  SelectSeq(sql_text, IsCreate)

\* The record a match is seeded with.
NewTable(m) ==
    [name            |-> m.table,
     schema_name     |-> m.schema,
     schema_stmt     |-> m,
     constraints_raw |-> <<>>,
     primary_keys    |-> <<>>,
     foreign_keys    |-> <<>>,
     dependencies    |-> {}]

\* As StoreTable, but a name the registry holds keeps its first record.
StoreTableFirstWins(tables, m) ==
    IF Has(tables, m.table) THEN tables ELSE Put(tables, m.table, NewTable(m))

\* tables[table] = {...}
StoreTable(tables, m) == Put(tables, m.table, NewTable(m))

RECURSIVE CreateLoop(_, _)
CreateLoop(matches, tables) ==
    IF matches = <<>> THEN tables
    ELSE CreateLoop(Tail(matches), StoreTable(tables, Head(matches)))

extract_tables_and_ddl(sql_text) == CreateLoop(CreateMatches(sql_text), <<>>)

-----------------------------------------------------------------------------
(* parse_constraints *)

\* alter_pattern.finditer(sql_text): the ALTER TABLE statements, in text order.
AlterMatches(sql_text) ==
    LET IsAlter(stmt) == stmt.head = "ALTER"
    IN  SelectSeq(sql_text, IsAlter)

\* tables[table]['constraints_raw'].append(stmt)
AppendConstraint(item, stmt) ==
    [item EXCEPT !.constraints_raw = Append(@, stmt)]

\* re.finditer(r'PRIMARY\s+KEY\s*\(...\)', stmt): the column lists, in order.
PrimaryKeyMatches(stmt) ==
    LET IsPK(tok) == tok.kind = "PK"
        toks == SelectSeq(stmt.body, IsPK)
    IN  [k \in 1..Len(toks) |-> toks[k].cols]

\* As AddPrimaryKey, without the test for a column already listed.
AddPrimaryKeyAgain(primary_keys, c) ==
    IF c # <<>> THEN Append(primary_keys, c) ELSE primary_keys

\* if c and c not in primary_keys: primary_keys.append(c)
AddPrimaryKey(primary_keys, c) ==
    IF c # <<>> /\ c \notin Range(primary_keys)
    THEN Append(primary_keys, c)
    ELSE primary_keys

RECURSIVE AddPrimaryKeyCols(_, _)
AddPrimaryKeyCols(primary_keys, cols) ==
    IF cols = <<>> THEN primary_keys
    ELSE AddPrimaryKeyCols(AddPrimaryKey(primary_keys, Head(cols)), Tail(cols))

RECURSIVE PrimaryKeyLoop(_, _)
PrimaryKeyLoop(primary_keys, matches) ==
    IF matches = <<>> THEN primary_keys
    ELSE PrimaryKeyLoop(AddPrimaryKeyCols(primary_keys, StripCols(Head(matches))),
                        Tail(matches))

\* The foreign-key pattern: FOREIGN KEY (local), then the shortest gap of any
\* text, then REFERENCES "ref_schema"."ref_table" (ref_cols).  A match starts
\* at the first FOREIGN KEY at or after pos and ends at the first REFERENCES
\* after it; the search resumes behind the match.
RECURSIVE ForeignKeyMatches(_, _)
ForeignKeyMatches(body, pos) ==
    LET starts == {h \in pos..Len(body) : body[h].kind = "FKH"}
    IN  IF starts = {} THEN <<>>
        ELSE LET h    == CHOOSE x \in starts : \A y \in starts : x <= y
                 ends == {r \in (h + 1)..Len(body) : body[r].kind = "REF"}
             IN  IF ends = {} THEN <<>>
                 ELSE LET r == CHOOSE x \in ends : \A y \in ends : x <= y
                      IN  <<[local      |-> body[h].cols,
                             ref_schema |-> body[r].schema,
                             ref_table  |-> body[r].table,
                             ref_cols   |-> body[r].cols]>>
                          \o ForeignKeyMatches(body, r + 1)

\* ', '.join([c.strip().strip('"') for c in cols.split(',')])
JoinCols(cols) == Join(StripCols(cols), <<44, 32>>)

\* f"{ref_table}({ref_cols})"
Reference(ref_table, ref_cols) == ref_table \o <<40>> \o ref_cols \o <<41>>

\* The dict appended to foreign_keys for one match.
ForeignKeyRecord(fkm) ==
    [column     |-> JoinCols(fkm.local),
     references |-> Reference(fkm.ref_table, JoinCols(fkm.ref_cols))]

\* As AppendForeignKey, but a record already listed is not listed again.
AppendForeignKeyOnce(foreign_keys, fk) ==
    IF fk \in Range(foreign_keys) THEN foreign_keys ELSE Append(foreign_keys, fk)

\* foreign_keys.append({...})
AppendForeignKey(foreign_keys, fk) == Append(foreign_keys, fk)

\* As AddDependency, but the set is assigned, not added to.
AddDependencyOnly(dependencies, ref_table) == {ref_table}

\* dependencies.add(ref_table)
AddDependency(dependencies, ref_table) == dependencies \cup {ref_table}

RECURSIVE ForeignKeyLoop(_, _)
ForeignKeyLoop(item, matches) ==
    IF matches = <<>> THEN item
    ELSE ForeignKeyLoop(
             [item EXCEPT
                 !.foreign_keys = AppendForeignKey(@, ForeignKeyRecord(Head(matches))),
                 !.dependencies = AddDependency(@, Head(matches).ref_table)],
             Tail(matches))

\* As ApplyAlter, but the record takes over the schema the statement names.
ApplyAlterRenaming(item, stmt) ==
    LET withRaw == AppendConstraint([item EXCEPT !.schema_name = stmt.schema], stmt)
        withPK  == [withRaw EXCEPT
                       !.primary_keys = PrimaryKeyLoop(@, PrimaryKeyMatches(stmt))]
    IN  ForeignKeyLoop(withPK, ForeignKeyMatches(stmt.body, 1))

\* The loop body for a statement whose table is in the registry.
ApplyAlter(item, stmt) ==
    LET withRaw == AppendConstraint(item, stmt)
        withPK  == [withRaw EXCEPT
                       !.primary_keys = PrimaryKeyLoop(@, PrimaryKeyMatches(stmt))]
    IN  ForeignKeyLoop(withPK, ForeignKeyMatches(stmt.body, 1))

\* As Skipped, but a statement is also passed over when its schema is not
\* the schema of the record.
SkippedBySchema(tables, stmt) ==
    IF Has(tables, stmt.table)
    THEN Get(tables, stmt.table).schema_name # stmt.schema
    ELSE TRUE

\* if table not in tables: continue
Skipped(tables, stmt) == ~Has(tables, stmt.table)

\* As AlterStep, but a table the registry lacks gets a record of its own.
AlterStepCreating(tables, stmt) ==
    IF Has(tables, stmt.table)
    THEN Put(tables, stmt.table, ApplyAlter(Get(tables, stmt.table), stmt))
    ELSE Put(tables, stmt.table, ApplyAlter(NewTable(stmt), stmt))

\* One iteration of the loop over the ALTER TABLE matches.
AlterStep(tables, stmt) ==
    IF Skipped(tables, stmt) THEN tables
    ELSE Put(tables, stmt.table, ApplyAlter(Get(tables, stmt.table), stmt))

RECURSIVE AlterLoop(_, _)
AlterLoop(matches, tables) ==
    IF matches = <<>> THEN tables
    ELSE AlterLoop(Tail(matches), AlterStep(tables, Head(matches)))

\* The registry parse_constraints leaves behind.
parse_constraints(sql_text, tables) == AlterLoop(AlterMatches(sql_text), tables)

-----------------------------------------------------------------------------
(* to_serializable *)

\* As SortedKeys, but the keys in the order of the dict.
InsertionKeys(items) == [k \in 1..Len(items) |-> items[k].key]

\* sorted(items.keys())
SortedKeys(items) == Sorted(Keys(items))

\* '\n  '.join(s.strip() for s in constraints_raw), '' when there is none.
\* A matched statement starts with ALTER and ends with ';', so strip() leaves
\* it as it is; the joined text is the statements with the separator between.
ConstraintsJoined(constraints_raw) ==
    Join([k \in 1..Len(constraints_raw) |-> <<constraints_raw[k]>>],
         <<<<10, 32, 32>>>>)

OutRecord(item) ==
    [name         |-> item.name,
     primary_keys |-> item.primary_keys,
     foreign_keys |-> item.foreign_keys,
     schema       |-> item.schema_stmt,
     constraints  |-> ConstraintsJoined(item.constraints_raw),
     dependencies |-> Sorted(item.dependencies)]

to_serializable(items) ==
    LET keys == SortedKeys(items)
    IN  [k \in 1..Len(keys) |-> OutRecord(Get(items, keys[k]))]

-----------------------------------------------------------------------------
(* Requests *)

\* Schema and table identifiers: "s", "p" and "a", "ab", "B".
Schemas == {<<115>>, <<112>>}

TableNames == {<<97>>, <<97, 98>>, <<66>>}

\* Raw column lists:  "a"  |  "a", "b"  |  b,, "a"
ColLists == {<<34, 97, 34>>,
             <<34, 97, 34, 44, 32, 34, 98, 34>>,
             <<98, 44, 44, 32, 34, 97, 34>>}

PK(cols) == [kind |-> "PK", cols |-> cols]

FKH(cols) == [kind |-> "FKH", cols |-> cols]

REF(schema, table, cols) ==
    [kind |-> "REF", schema |-> schema, table |-> table, cols |-> cols]

Create(schema, table) ==
    [head |-> "CREATE", schema |-> schema, table |-> table, body |-> <<>>]

Alter(schema, table, body) ==
    [head |-> "ALTER", schema |-> schema, table |-> table, body |-> body]

\* ALTER TABLE ONLY t ADD PRIMARY KEY ("a");  (no quoted name behind TABLE)
Other ==
    [head |-> "OTHER", schema |-> <<>>, table |-> <<>>,
     body |-> <<PK(<<34, 97, 34>>)>>]

\* ADD PRIMARY KEY ("a"), ADD FOREIGN KEY ("a", "b") REFERENCES "p"."a" (b,, "a")
PlainBody ==
    <<PK(<<34, 97, 34>>),
      FKH(<<34, 97, 34, 44, 32, 34, 98, 34>>),
      REF(<<112>>, <<97>>, <<98, 44, 44, 32, 34, 97, 34>>)>>

\* Statements that differ in schema and table; every ALTER TABLE names the
\* schema "p", the CREATE TABLE of the same table either schema.
StmtPool ==
    {Create(sc, t) : sc \in Schemas, t \in TableNames}
    \cup {Alter(<<112>>, t, PlainBody) : t \in TableNames}
    \cup {Other}

\* Bodies of ALTER TABLE statements on the table "a": no clause, primary
\* keys that overlap, a foreign key to "a" itself and to "B", the same foreign
\* key twice, a FOREIGN KEY whose REFERENCES is not of the quoted form before
\* a well-formed one, and a REFERENCES with no FOREIGN KEY.
Bodies ==
    {<<>>,
     <<PK(<<34, 97, 34>>)>>,
     <<PK(<<34, 97, 34, 44, 32, 34, 98, 34>>)>>,
     <<PK(<<98, 44, 44, 32, 34, 97, 34>>), PK(<<34, 97, 34, 44, 32, 34, 98, 34>>)>>,
     <<FKH(<<34, 97, 34>>), REF(<<112>>, <<97>>, <<34, 97, 34>>)>>,
     <<FKH(<<98, 44, 44, 32, 34, 97, 34>>),
       REF(<<112>>, <<66>>, <<34, 97, 34, 44, 32, 34, 98, 34>>)>>,
     <<FKH(<<34, 97, 34>>), REF(<<112>>, <<97>>, <<34, 97, 34>>),
       FKH(<<34, 97, 34>>), REF(<<112>>, <<97>>, <<34, 97, 34>>)>>,
     <<FKH(<<34, 97, 34, 44, 32, 34, 98, 34>>), PK(<<34, 97, 34>>),
       FKH(<<34, 97, 34>>), REF(<<112>>, <<97, 98>>, <<34, 97, 34>>)>>,
     <<REF(<<112>>, <<66>>, <<34, 97, 34>>)>>}

\* Statements that differ in their clauses.
ClausePool ==
    {Create(<<115>>, <<97>>)}
    \cup {Alter(<<115>>, <<97>>, body) : body \in Bodies}

TextsOver(pool) == UNION {[1..n -> pool] : n \in 0..MaxStmts}

Texts == TextsOver(StmtPool) \cup TextsOver(ClausePool)

\* "d.sql" and "d.txt"
Filenames == {<<100, 46, 115, 113, 108>>, <<100, 46, 116, 120, 116>>}

\* The JSON bodies of /parse-text, each the set of its <<key, value>> members:
\* with or without the key "sql_text".
Payloads == {{<<"sql_text", t>>} : t \in Texts} \cup {{}}

NoFile == [filename |-> <<>>, content |-> <<>>]

NoPayload == {}

-----------------------------------------------------------------------------
(* The request handlers *)

VARIABLES
    endpoint,   \* the route of the request
    file,       \* /parse-sql: the upload, its filename and its decoded content
    payload,    \* /parse-text: the JSON body
    pc,         \* where the handler stands
    sql_text,   \* the handler's local sql_text
    tables,     \* the registry
    m,          \* ALTER TABLE matches parse_constraints has gone through
    calls,      \* the core functions the handler has called
    out,        \* json_data
    status      \* the status of the response, 0 while there is none

vars == <<endpoint, file, payload, pc, sql_text, tables, m, calls, out, status>>

request == <<endpoint, file, payload>>

Init ==
    /\ \/ /\ endpoint = "/parse-sql"
          /\ file \in [filename : Filenames, content : Texts]
          /\ payload = NoPayload
       \/ /\ endpoint = "/parse-text"
          /\ file = NoFile
          /\ payload \in Payloads
    /\ pc = "start"
    /\ sql_text = <<>>
    /\ tables = <<>>
    /\ m = 0
    /\ calls = <<>>
    /\ out = <<>>
    /\ status = 0

\* raise HTTPException(status_code=400, ...)
Raise400 ==
    /\ pc' = "error"
    /\ status' = 400
    /\ UNCHANGED <<request, sql_text, tables, m, calls, out>>

\* tables = extract_tables_and_ddl(sql_text), then the call of parse_constraints
Extract(text) ==
    /\ sql_text' = text
    /\ tables' = extract_tables_and_ddl(text)
    /\ m' = 0
    /\ calls' = <<"extract_tables_and_ddl", "parse_constraints">>
    /\ pc' = "parse_constraints"
    /\ UNCHANGED <<request, out, status>>

\* /parse-sql: if not file.filename.endswith(".sql"): raise
parse_sql_file_reject ==
    /\ pc = "start"
    /\ endpoint = "/parse-sql"
    /\ ~EndsWith(file.filename, <<46, 115, 113, 108>>)
    /\ Raise400

\* /parse-sql: read and decode the upload, collect the tables
parse_sql_file_extract ==
    /\ pc = "start"
    /\ endpoint = "/parse-sql"
    /\ EndsWith(file.filename, <<46, 115, 113, 108>>)
    /\ Extract(file.content)

\* "sql_text" in payload
HasText(body) == \E kv \in body : kv[1] = "sql_text"

\* payload["sql_text"]
TextOf(body) == (CHOOSE kv \in body : kv[1] = "sql_text")[2]

\* sql_text = payload.get("sql_text"); not sql_text holds of None and of ''
TextMissing(body) == IF HasText(body) THEN TextOf(body) = <<>> ELSE TRUE

\* /parse-text: if not sql_text: raise
parse_sql_text_reject ==
    /\ pc = "start"
    /\ endpoint = "/parse-text"
    /\ TextMissing(payload)
    /\ Raise400

\* /parse-text: collect the tables
parse_sql_text_extract ==
    /\ pc = "start"
    /\ endpoint = "/parse-text"
    /\ ~TextMissing(payload)
    /\ Extract(TextOf(payload))

\* parse_constraints, one ALTER TABLE match: its table is not in the registry
parse_constraints_continue ==
    /\ pc = "parse_constraints"
    /\ m < Len(AlterMatches(sql_text))
    /\ Skipped(tables, AlterMatches(sql_text)[m + 1])
    /\ tables' = AlterStep(tables, AlterMatches(sql_text)[m + 1])
    /\ m' = m + 1
    /\ UNCHANGED <<request, pc, sql_text, calls, out, status>>

\* parse_constraints, one ALTER TABLE match: its table is in the registry
parse_constraints_apply ==
    /\ pc = "parse_constraints"
    /\ m < Len(AlterMatches(sql_text))
    /\ ~Skipped(tables, AlterMatches(sql_text)[m + 1])
    /\ tables' = AlterStep(tables, AlterMatches(sql_text)[m + 1])
    /\ m' = m + 1
    /\ UNCHANGED <<request, pc, sql_text, calls, out, status>>

\* As serialize, but with item['primary_keys'].sort() on the way.
serialize_sorting ==
    /\ pc = "parse_constraints"
    /\ m = Len(AlterMatches(sql_text))
    /\ tables' = [k \in 1..Len(tables) |->
                     [tables[k] EXCEPT
                         !.value.primary_keys = Sorted(Range(@))]]
    /\ out' = to_serializable(tables')
    /\ calls' = Append(calls, "to_serializable")
    /\ status' = 200
    /\ pc' = "done"
    /\ UNCHANGED <<request, sql_text, m>>

\* json_data = to_serializable(tables); return JSONResponse(content=json_data)
serialize ==
    /\ pc = "parse_constraints"
    /\ m = Len(AlterMatches(sql_text))
    /\ out' = to_serializable(tables)
    /\ calls' = Append(calls, "to_serializable")
    /\ status' = 200
    /\ pc' = "done"
    /\ UNCHANGED <<request, sql_text, tables, m>>

Next ==
    \/ parse_sql_file_reject
    \/ parse_sql_file_extract
    \/ parse_sql_text_reject
    \/ parse_sql_text_extract
    \/ parse_constraints_continue
    \/ parse_constraints_apply
    \/ serialize

Spec == Init /\ [][Next]_vars

-----------------------------------------------------------------------------
(* Properties *)

Items == {tables[k].value : k \in 1..Len(tables)}

NoRepeat(seq) == \A i, j \in 1..Len(seq) : i # j => seq[i] # seq[j]

IsPrefix(s1, s2) == Len(s1) <= Len(s2) /\ SubSeq(s2, 1, Len(s1)) = s1

RECURSIVE Flatten(_)
Flatten(seqs) == IF seqs = <<>> THEN <<>> ELSE Head(seqs) \o Flatten(Tail(seqs))

\* The ALTER TABLE statements on the table name that parse_constraints has
\* gone through so far, in text order.
ProcessedFor(name) ==
    LET OnName(stmt) == stmt.table = name
    IN  SelectSeq(SubSeq(AlterMatches(sql_text), 1, m), OnName)

\* The pipeline of the handlers as one function of the text.
Pipeline(text) ==
    to_serializable(parse_constraints(text, extract_tables_and_ddl(text)))

(* C1 *)

\* C1: the output has one record for each key of the registry, and a record
\* stands before another exactly when its name is the smaller one.
NameOrdering ==
    pc = "done" =>
        /\ Len(out) = Cardinality(Keys(tables))
        /\ {out[k].name : k \in 1..Len(out)} = Keys(tables)
        /\ \A i, j \in 1..Len(out) : i < j <=> StrLess(out[i].name, out[j].name)

\* Three tables have been serialized that were inserted in another order
\* than the one of their names.
NameOrderingWitness ==
    /\ pc = "done"
    /\ Len(out) = 3
    /\ \E i, j \in 1..Len(tables) : i < j /\ StrLess(tables[j].key, tables[i].key)

(* C2 *)

\* The table a reference string names: the text before its first '('.
RefTableOf(reference) ==
    LET k == CHOOSE j \in 1..Len(reference) :
                 reference[j] = 40 /\ \A h \in 1..(j - 1) : reference[h] # 40
    IN  SubSeq(reference, 1, k - 1)

\* C2: in the registry, from collect_tables on and after every ALTER TABLE
\* statement, and in the output, the dependencies of a table are exactly the
\* tables its foreign keys reference.
DependencyConsistency ==
    /\ \A item \in Items :
           item.dependencies =
               {RefTableOf(item.foreign_keys[k].references) :
                    k \in 1..Len(item.foreign_keys)}
    /\ \A n \in 1..Len(out) :
           Range(out[n].dependencies) =
               {RefTableOf(out[n].foreign_keys[k].references) :
                    k \in 1..Len(out[n].foreign_keys)}

\* A serialized table has three foreign keys that reference two tables, one
\* of them the table itself.
DependencyConsistencyWitness ==
    /\ pc = "done"
    /\ \E n \in 1..Len(out) :
           /\ Len(out[n].foreign_keys) = 3
           /\ Len(out[n].dependencies) = 2
           /\ out[n].name \in Range(out[n].dependencies)

(* C3 *)

\* The column names of the PRIMARY KEY clauses of the statements gone through
\* for a table, stripped, the empty ones left out, in order of appearance.
PrimaryKeyNamesSeen(name) ==
    LET stmts   == ProcessedFor(name)
        clauses == Flatten([k \in 1..Len(stmts) |-> PrimaryKeyMatches(stmts[k])])
        names   == Flatten([k \in 1..Len(clauses) |-> StripCols(clauses[k])])
        NonEmpty(c) == c # <<>>
    IN  SelectSeq(names, NonEmpty)

FirstIndex(seq, x) ==
    CHOOSE k \in 1..Len(seq) : seq[k] = x /\ \A h \in 1..(k - 1) : seq[h] # x

\* seq holds each element of seen once, ordered by first appearance in seen.
FirstSeenOrder(seq, seen) ==
    /\ NoRepeat(seq)
    /\ Range(seq) = Range(seen)
    /\ \A i, j \in 1..Len(seq) :
           i < j => FirstIndex(seen, seq[i]) < FirstIndex(seen, seq[j])

\* C3: after every ALTER TABLE statement and in the output, primary_keys has
\* no repeated and no empty name, and lists the columns of the PRIMARY KEY
\* clauses in the order of their first appearance.
PrimaryKeyDedup ==
    /\ \A item \in Items :
           /\ <<>> \notin Range(item.primary_keys)
           /\ FirstSeenOrder(item.primary_keys, PrimaryKeyNamesSeen(item.name))
    /\ \A n \in 1..Len(out) :
           /\ <<>> \notin Range(out[n].primary_keys)
           /\ FirstSeenOrder(out[n].primary_keys, PrimaryKeyNamesSeen(out[n].name))

\* A serialized table went through two statements whose PRIMARY KEY clauses
\* list five names, two of them distinct, the second-listed one first seen.
PrimaryKeyDedupWitness ==
    /\ pc = "done"
    /\ \E n \in 1..Len(out) :
           /\ Len(ProcessedFor(out[n].name)) = 2
           /\ Len(PrimaryKeyNamesSeen(out[n].name)) = 5
           /\ out[n].primary_keys = <<<<98>>, <<97>>>>

(* C4 *)

\* The next ALTER TABLE statement of parse_constraints names a table that is
\* not a key of the registry.
OrphanNext ==
    /\ pc = "parse_constraints"
    /\ m < Len(AlterMatches(sql_text))
    /\ AlterMatches(sql_text)[m + 1].table \notin Keys(tables)

\* The text without the ALTER TABLE statements on tables that no CREATE TABLE
\* statement of the text defines.
WithoutOrphans(text) ==
    LET Kept(stmt) ==
            stmt.head = "ALTER" =>
                \E k \in 1..Len(text) :
                    text[k].head = "CREATE" /\ text[k].table = stmt.table
    IN  SelectSeq(text, Kept)

\* C4: the step of parse_constraints over an ALTER TABLE statement on a table
\* the registry lacks changes nothing of the registry and raises no error, and
\* the response is the one of the text without such statements.
OrphanDrop ==
    /\ [][OrphanNext => (tables' = tables /\ pc' = pc /\ status' = 0)]_vars
    /\ [](pc = "done" => (status = 200 /\ out = Pipeline(WithoutOrphans(sql_text))))

\* A response with a record in it came from a text that has an ALTER TABLE
\* statement on a table without a CREATE TABLE.
OrphanDropWitness ==
    /\ pc = "done"
    /\ out # <<>>
    /\ WithoutOrphans(sql_text) # sql_text

(* C5 *)

\* The last CREATE TABLE statement of the text on the table name.
LastCreate(text, name) ==
    LET last == CHOOSE k \in 1..Len(text) :
                    /\ text[k].head = "CREATE" /\ text[k].table = name
                    /\ \A h \in (k + 1)..Len(text) :
                           ~(text[h].head = "CREATE" /\ text[h].table = name)
    IN  text[last]

CreatedNames(text) ==
    {text[k].table : k \in {h \in 1..Len(text) : text[h].head = "CREATE"}}

\* C5: the registry collect_tables returns has one record for each table name
\* of a CREATE TABLE statement, with the schema and the text of the last such
\* statement and nothing else filled in.
LastWriterWins ==
    (pc = "parse_constraints" /\ m = 0) =>
        /\ Keys(tables) = CreatedNames(sql_text)
        /\ Len(tables) = Cardinality(CreatedNames(sql_text))
        /\ \A k \in 1..Len(tables) :
               tables[k].value =
                   [name            |-> tables[k].key,
                    schema_name     |-> LastCreate(sql_text, tables[k].key).schema,
                    schema_stmt     |-> LastCreate(sql_text, tables[k].key),
                    constraints_raw |-> <<>>,
                    primary_keys    |-> <<>>,
                    foreign_keys    |-> <<>>,
                    dependencies    |-> {}]

\* collect_tables has returned for a text with two CREATE TABLE statements
\* on one table name in two schemas.
LastWriterWinsWitness ==
    /\ pc = "parse_constraints"
    /\ m = 0
    /\ \E i, j \in 1..Len(sql_text) :
           /\ i < j
           /\ sql_text[i].head = "CREATE" /\ sql_text[j].head = "CREATE"
           /\ sql_text[i].table = sql_text[j].table
           /\ sql_text[i].schema # sql_text[j].schema

(* C6 *)

\* What a step may do to a record: extend the three lists at their end, add
\* to the dependencies, and nothing else.
RecordFrame(old, new) ==
    /\ new.name = old.name
    /\ new.schema_name = old.schema_name
    /\ new.schema_stmt = old.schema_stmt
    /\ IsPrefix(old.constraints_raw, new.constraints_raw)
    /\ IsPrefix(old.primary_keys, new.primary_keys)
    /\ IsPrefix(old.foreign_keys, new.foreign_keys)
    /\ old.dependencies \subseteq new.dependencies

\* C6: a step of parse_constraints keeps the keys of the registry, name,
\* schema_name and the definition text of every record, and only extends the
\* constraint statements, primary keys, foreign keys and dependencies.
ParseConstraintsFrame ==
    [][pc = "parse_constraints" =>
          /\ Len(tables') = Len(tables)
          /\ \A k \in 1..Len(tables) :
                 /\ tables'[k].key = tables[k].key
                 /\ RecordFrame(tables[k].value, tables'[k].value)]_vars

\* parse_constraints has extended a record that already had a constraint
\* statement, by a statement that names another schema than the record.
ParseConstraintsFrameWitness ==
    /\ pc = "parse_constraints"
    /\ \E item \in Items :
           /\ Len(item.constraints_raw) = 2
           /\ Len(item.foreign_keys) = 2
           /\ item.constraints_raw[2].schema # item.schema_name

(* C7 *)

\* C7: to_serializable leaves the registry as it was, and serializing the
\* registry once more gives the output again.
SerializerPure ==
    /\ [][(pc = "parse_constraints" /\ pc' = "done") => tables' = tables]_vars
    /\ [](pc = "done" => out = to_serializable(tables))

\* A registry has been serialized in which a table has primary keys that are
\* not in ascending order, a foreign key and a constraint statement.
SerializerPureWitness ==
    /\ pc = "done"
    /\ \E item \in Items :
           /\ Len(item.primary_keys) = 2
           /\ StrLess(item.primary_keys[2], item.primary_keys[1])
           /\ item.foreign_keys # <<>>

(* C8 *)

\* The request carries no SQL text or an empty one.
EmptyRequest ==
    IF endpoint = "/parse-sql" THEN file.content = <<>> ELSE TextMissing(payload)

\* C8: a request with no or with empty SQL text never reaches a core function
\* and gets no response other than an error.
EmptyTextRejected ==
    EmptyRequest => (calls = <<>> /\ status \in {0, 400})

(* C9 *)

\* The foreign-key clauses of a statement body: a FOREIGN KEY at h with the
\* next REFERENCES at r, where no earlier FOREIGN KEY is still waiting for
\* its REFERENCES at h.
ForeignKeyClauses(body) ==
    {hr \in (1..Len(body)) \X (1..Len(body)) :
        /\ hr[1] < hr[2]
        /\ body[hr[1]].kind = "FKH"
        /\ body[hr[2]].kind = "REF"
        /\ \A k \in (hr[1] + 1)..(hr[2] - 1) : body[k].kind # "REF"
        /\ \A g \in 1..(hr[1] - 1) :
               body[g].kind = "FKH" =>
                   \E k \in (g + 1)..(hr[1] - 1) : body[k].kind = "REF"}

\* The clauses in order of occurrence.
RECURSIVE ClauseSeq(_)
ClauseSeq(clauses) ==
    IF clauses = {} THEN <<>>
    ELSE LET first == CHOOSE x \in clauses : \A y \in clauses : x[1] <= y[1]
         IN  <<first>> \o ClauseSeq(clauses \ {first})

\* The record C9 expects for a clause: the columns stripped and joined by
\* ", " in clause order, the referenced table without its schema.
ExpectedForeignKey(body, hr) ==
    [column     |-> Join(StripCols(body[hr[1]].cols), <<44, 32>>),
     references |-> body[hr[2]].table \o <<40>>
                    \o Join(StripCols(body[hr[2]].cols), <<44, 32>>) \o <<41>>]

ExpectedForeignKeys(name) ==
    LET stmts == ProcessedFor(name)
    IN  Flatten([k \in 1..Len(stmts) |->
            LET cl == ClauseSeq(ForeignKeyClauses(stmts[k].body))
            IN  [n \in 1..Len(cl) |-> ExpectedForeignKey(stmts[k].body, cl[n])]])

ExpectedDependencies(name) ==
    LET stmts == ProcessedFor(name)
    IN  UNION {{stmts[k].body[hr[2]].table : hr \in ForeignKeyClauses(stmts[k].body)} :
                  k \in 1..Len(stmts)}

\* C9: foreign_keys of a table is, for the statements gone through, one
\* record for each foreign-key clause, in order of occurrence, repeated
\* clauses repeated, and dependencies holds each referenced table.
ForeignKeyRecords ==
    \A item \in Items :
        /\ item.foreign_keys = ExpectedForeignKeys(item.name)
        /\ item.dependencies = ExpectedDependencies(item.name)

\* A table has the same foreign-key record three times, from two statements,
\* and one dependency.
ForeignKeyRecordsWitness ==
    /\ pc = "done"
    /\ \E item \in Items :
           /\ Len(item.foreign_keys) = 3
           /\ Len(item.constraints_raw) = 2
           /\ Cardinality(Range(item.foreign_keys)) = 1
           /\ Cardinality(item.dependencies) = 1

(* C10 *)

\* The ALTER TABLE statements of the text on the table name, in text order.
AlterStatementsOn(text, name) ==
    LET OnName(stmt) == stmt.head = "ALTER" /\ stmt.table = name
    IN  SelectSeq(text, OnName)

\* C10: after collect_tables and parse_constraints, constraint_statements of
\* a table is the sequence of the ALTER TABLE statements of the text with the
\* table's name, whatever their schema and their place in the text.
ConstraintStatements ==
    pc = "done" =>
        \A item \in Items :
            item.constraints_raw = AlterStatementsOn(sql_text, item.name)

\* A table was redefined after an ALTER TABLE statement that names it with
\* another schema than the record has, and the statement is attached.
ConstraintStatementsWitness ==
    /\ pc = "done"
    /\ \E i, j, k \in 1..Len(sql_text) :
           /\ i < j /\ j < k
           /\ sql_text[i].head = "CREATE"
           /\ sql_text[j].head = "ALTER"
           /\ sql_text[k].head = "CREATE"
           /\ sql_text[i].table = sql_text[j].table
           /\ sql_text[k].table = sql_text[j].table
           /\ \E item \in Items :
                  /\ item.name = sql_text[j].table
                  /\ item.schema_name # sql_text[j].schema
                  /\ item.constraints_raw = <<sql_text[j]>>

====
